---- MODULE Spec2Model ----
(***************************************************************************)
(* Model of the analytics core of the trading dashboard (src/app.py):      *)
(* load_data, resumo, simular_stop_diario, filtrar_por_tres_janelas_-      *)
(* abertura, the time-of-day bucket tables and the "Simulacao" page.       *)
(*                                                                         *)
(* Units.  Point amounts are counted in half points, so that the fixed     *)
(* cost of 2.5 points is the integer 5 and every sum the code forms is     *)
(* exact.  DataHora is a whole number of minutes since 00:00 of day 0:     *)
(* dt.date is DataHora \div 1440, dt.hour and dt.minute are taken from     *)
(* DataHora % 1440.  A time of day (datetime.time) is [hour, minute].      *)
(* Quotients the code forms in floating point (profit factor, expectancy,  *)
(* hit rate) are exact fractions [num, den] in lowest terms.               *)
(***************************************************************************)
EXTENDS Integers, Sequences, FiniteSets, TLC

VARIABLES
    df,          \* the series load_data returned (df / df_filtrado)
    menu,        \* the page or function that ran last
    cfg,         \* the arguments (widget values) of that run
    df_real,     \* Simulacao: df with its running total
    df_stop,     \* result of simular_stop_diario(df_real, ...)
    df_janela,   \* result of filtrar_por_tres_janelas_abertura(df_real, ...)
    df_combo,    \* result of simular_stop_diario(df_janela, ...)
    kpis,        \* resumo of the four series
    df_hor_15,   \* 15-minute bucket table, after the merge
    df_hor_1h,   \* 1-hour bucket table
    fonte,       \* the rows of the csv file at DATA_PATH
    cache,       \* what st.cache_data holds for load_data: <<>> or <<series>>
    reaplicado   \* outcome of simular_stop_diario called on df_stop

vars == <<df, menu, cfg, df_real, df_stop, df_janela, df_combo, kpis,
          df_hor_15, df_hor_1h, fonte, cache, reaplicado>>

---------------------------------------------------------------------------
(* Bounds of the model *)

MaxLen == 3      \* rows in the source log
MaxDia == 2      \* calendar days the log spans

(* Program constant: df["Custo Operacao (pts)"] = 2.5, in half points *)
CustoOperacao == 5

---------------------------------------------------------------------------
(* Generic helpers *)

Abs(x) == IF x < 0 THEN -x ELSE x

RECURSIVE SumSeq(_)
SumSeq(s) == IF s = <<>> THEN 0 ELSE Head(s) + SumSeq(Tail(s))

\* series["Lucro Liquido (pts)"] as a sequence of numbers
LiqDe(s) == [i \in 1..Len(s) |-> s[i].Liq]

\* Series.sum() of the net results
SomaLiq(s) == SumSeq(LiqDe(s))

\* Timestamp accessors (.dt.date, .dt.hour, .dt.minute)
dt_date(ts) == ts \div (24 * 60)
dt_hour(ts) == (ts % (24 * 60)) \div 60
dt_minute(ts) == ts % 60

---------------------------------------------------------------------------
(* load_data *)

\* pd.to_datetime(..., errors="coerce") yields NaT for an unparseable row
NaT == -1

to_datetime(data, abertura) ==
    IF abertura.hour \in 0..23 /\ abertura.minute \in 0..59
    THEN data * (24 * 60) + abertura.hour * 60 + abertura.minute
    ELSE NaT

\* DataFrame.sort_values("DataHora"): ascending.  Rows with equal keys are
\* taken to keep their input order, as a stable sort leaves them; pandas'
\* default sort kind promises no order among equal keys.
RECURSIVE insere(_, _)
insere(s, row) ==
    IF s = <<>> THEN <<row>>
    ELSE IF s[Len(s)].DataHora <= row.DataHora THEN Append(s, row)
    ELSE Append(insere(SubSeq(s, 1, Len(s) - 1), row), s[Len(s)])

RECURSIVE ordena(_, _)
ordena(s, n) == IF n = 0 THEN <<>> ELSE insere(ordena(s, n - 1), s[n])

sort_values(s) == ordena(s, Len(s))

\* One raw csv row [Data, Abertura, Res] as load_data leaves it: DataHora
\* parsed, the cost and the net result attached.
linha_carregada(raw) ==
    [DataHora |-> to_datetime(raw.Data, raw.Abertura),
     Res      |-> raw.Res,
     Liq      |-> raw.Res - CustoOperacao]

load_data(csv) ==
    LET lidas == [i \in 1..Len(csv) |-> linha_carregada(csv[i])]
        validas == SelectSeq(lidas, LAMBDA r : r.DataHora # NaT)
    IN  sort_values(validas)

\* @st.cache_data on a function without arguments: the body runs when no
\* value is held, and the value held is returned otherwise, whatever the
\* file at DATA_PATH holds by then
load_data_em_cache(guardado, csv) ==
    IF Len(guardado) = 0 THEN load_data(csv) ELSE guardado[1]

---------------------------------------------------------------------------
(* Running total: df["Total Parcial (pts)"] = df["Lucro Liquido (pts)"].cumsum() *)

cumsum(s) ==
    [i \in 1..Len(s) |->
        [DataHora |-> s[i].DataHora, Res |-> s[i].Res, Liq |-> s[i].Liq,
         Total    |-> SomaLiq(SubSeq(s, 1, i))]]

---------------------------------------------------------------------------
(* simular_stop_diario *)

\* mutant: a net result of exactly 0 counts as a loss
conta_perdas_zero_perde(perdas_consecutivas, liq) ==
    IF liq <= 0 THEN perdas_consecutivas + 1 ELSE 0

\* the streak update of one replayed row
conta_perdas(perdas_consecutivas, liq) ==
    IF liq < 0 THEN perdas_consecutivas + 1 ELSE 0

\* perdas_consecutivas after the loop body has run on the first k rows of
\* grupo (0 before the first)
RECURSIVE perdas_apos(_, _)
perdas_apos(grupo, k) ==
    IF k = 0 THEN 0 ELSE conta_perdas(perdas_apos(grupo, k - 1), grupo[k].Liq)

\* mutant: the gain target must be exceeded, not reached
deve_parar_estrito(saldo_acumulado, perdas_consecutivas, limite_perda, objetivo_ganho, loss_consecutivos) ==
    \/ saldo_acumulado > objetivo_ganho
    \/ saldo_acumulado <= -limite_perda
    \/ perdas_consecutivas >= loss_consecutivos

\* mutant: a gain target of 0 is taken as no target at all
deve_parar_objetivo_positivo(saldo_acumulado, perdas_consecutivas, limite_perda, objetivo_ganho, loss_consecutivos) ==
    \/ objetivo_ganho > 0 /\ saldo_acumulado >= objetivo_ganho
    \/ saldo_acumulado <= -limite_perda
    \/ perdas_consecutivas >= loss_consecutivos

\* the three exit guards, evaluated after the row is appended
deve_parar(saldo_acumulado, perdas_consecutivas, limite_perda, objetivo_ganho, loss_consecutivos) ==
    \/ saldo_acumulado >= objetivo_ganho
    \/ saldo_acumulado <= -limite_perda
    \/ perdas_consecutivas >= loss_consecutivos

\* mutant: the guards are read before the row is appended, so the row that
\* meets a guard is not kept
RECURSIVE replay_para_antes(_, _, _, _, _, _, _)
replay_para_antes(grupo, i, saldo_acumulado, perdas_consecutivas, lp, og, lc) ==
    IF i > Len(grupo) THEN <<>>
    ELSE LET row == grupo[i]
             saldo == saldo_acumulado + row.Liq
             perdas == conta_perdas(perdas_consecutivas, row.Liq)
         IN  IF deve_parar(saldo, perdas, lp, og, lc) THEN <<>>
             ELSE <<row>> \o replay_para_antes(grupo, i + 1, saldo, perdas, lp, og, lc)

\* the inner loop "for _, row in grupo.iterrows()" from row i on
RECURSIVE replay(_, _, _, _, _, _, _)
replay(grupo, i, saldo_acumulado, perdas_consecutivas, lp, og, lc) ==
    IF i > Len(grupo) THEN <<>>
    ELSE LET row == grupo[i]
             saldo == saldo_acumulado + row.Liq
             perdas == conta_perdas(perdas_consecutivas, row.Liq)
         IN  <<row>> \o
             (IF deve_parar(saldo, perdas, lp, og, lc) THEN <<>>
              ELSE replay(grupo, i + 1, saldo, perdas, lp, og, lc))

\* one group of the groupby: counters start at 0, the group is re-sorted
simula_grupo(grupo, lp, og, lc) ==
    replay(sort_values(grupo), 1, 0, 0, lp, og, lc)

\* the rows of df_tmp whose "Data" is d, in the order of df_tmp
grupo_de(df_tmp, d) == SelectSeq(df_tmp, LAMBDA r : dt_date(r.DataHora) = d)

datas_de(df_tmp) == {dt_date(df_tmp[i].DataHora) : i \in 1..Len(df_tmp)}

\* mutant: no groupby, the whole series is replayed as one day
linhas_de_sem_groupby(df_tmp, datas, lp, og, lc) ==
    IF datas = {} THEN <<>> ELSE simula_grupo(df_tmp, lp, og, lc)

\* the outer loop "for _, grupo in df_tmp.groupby("Data")": groups in
\* ascending key order, their kept rows appended to linhas
RECURSIVE linhas_de(_, _, _, _, _)
linhas_de(df_tmp, datas, lp, og, lc) ==
    IF datas = {} THEN <<>>
    ELSE LET d == CHOOSE x \in datas : \A y \in datas : x <= y
         IN  simula_grupo(grupo_de(df_tmp, d), lp, og, lc)
             \o linhas_de(df_tmp, datas \ {d}, lp, og, lc)

\* mutant: the kept rows keep the running total they came with
df_sim_de_sem_cumsum(linhas) ==
    IF Len(linhas) > 0 THEN sort_values(linhas) ELSE linhas

\* the tail of the function: sort the kept rows, recompute the running total
df_sim_de(linhas) ==
    IF Len(linhas) > 0 THEN cumsum(sort_values(linhas)) ELSE linhas

simular_stop_diario(df_in, limite_perda, objetivo_ganho, loss_consecutivos) ==
    df_sim_de(linhas_de(df_in, datas_de(df_in), limite_perda, objetivo_ganho,
                        loss_consecutivos))

\* the columns of pd.DataFrame(linhas): those of the rows, and none at all
\* when linhas is the empty list
colunas_de(linhas) == IF Len(linhas) = 0 THEN {} ELSE DOMAIN linhas[1]

\* df_tmp["DataHora"] on a frame that has no such column
KeyError == [erro |-> "KeyError", df_sim |-> <<>>]

\* a call of simular_stop_diario on a frame given by its columns and its
\* rows: the first statement that reads df_tmp["DataHora"] raises when the
\* column is missing, and the function returns df_sim otherwise
chamada_simular_stop_diario(colunas, df_in, limite_perda, objetivo_ganho, loss_consecutivos) ==
    IF "DataHora" \notin colunas THEN KeyError
    ELSE [erro |-> "",
          df_sim |-> simular_stop_diario(df_in, limite_perda, objetivo_ganho,
                                         loss_consecutivos)]

---------------------------------------------------------------------------
(* Exact fractions, for the quotients the code forms *)

RECURSIVE GCD(_, _)
GCD(a, b) == IF b = 0 THEN a ELSE GCD(b, a % b)

\* n / d in lowest terms with a positive denominator (d # 0)
Frac(n, d) ==
    LET g == GCD(Abs(n), Abs(d))
        sn == IF d < 0 THEN -n ELSE n
    IN  [num |-> sn \div g, den |-> Abs(d) \div g]

FracInt(n) == [num |-> n, den |-> 1]

FracAbs(f) == [num |-> Abs(f.num), den |-> f.den]

FracMul(f, g) == Frac(f.num * g.num, f.den * g.den)

FracSub(f, g) == Frac(f.num * g.den - g.num * f.den, f.den * g.den)

---------------------------------------------------------------------------
(* resumo *)

\* float("inf")
Infinito == [inf |-> TRUE, num |-> 0, den |-> 1]

Finito(f) == [inf |-> FALSE, num |-> f.num, den |-> f.den]

\* mutant: the quotient is taken without abs
fator_de_sem_abs(lucro, preju) ==
    IF preju # 0 THEN Finito(Frac(lucro, preju)) ELSE Infinito

\* fator = abs(lucro / preju) if preju != 0 else float("inf")
fator_de(lucro, preju) ==
    IF preju # 0 THEN Finito(FracAbs(Frac(lucro, preju))) ELSE Infinito

\* mutant: the empty series gets a profit factor of 0
resumo_vazio_zero(df_x) ==
    IF Len(df_x) = 0 THEN [ops |-> 0, saldo |-> 0, fator |-> Finito(FracInt(0))]
    ELSE LET lucro == SomaLiq(SelectSeq(df_x, LAMBDA r : r.Liq > 0))
             preju == SomaLiq(SelectSeq(df_x, LAMBDA r : r.Liq < 0))
         IN  [ops |-> Len(df_x), saldo |-> lucro + preju,
              fator |-> fator_de(lucro, preju)]

resumo(df_x) ==
    IF Len(df_x) = 0 THEN [ops |-> 0, saldo |-> 0, fator |-> Infinito]
    ELSE LET lucro == SomaLiq(SelectSeq(df_x, LAMBDA r : r.Liq > 0))
             preju == SomaLiq(SelectSeq(df_x, LAMBDA r : r.Liq < 0))
         IN  [ops |-> Len(df_x), saldo |-> lucro + preju,
              fator |-> fator_de(lucro, preju)]

---------------------------------------------------------------------------
(* filtrar_por_tres_janelas_abertura *)

\* a bound that was not provided (None)
None == [hour |-> -1, minute |-> -1]

time_to_minutes(t) == t.hour * 60 + t.minute

\* mutant: the end of a window that does not wrap is excluded
mask_janela_fim_aberto(mins, ini, fim) ==
    IF fim >= ini THEN (mins >= ini) /\ (mins < fim)
    ELSE (mins >= ini) \/ (mins <= fim)

\* mask_janela for one row's minute of day
mask_janela(mins, ini, fim) ==
    IF fim >= ini THEN (mins >= ini) /\ (mins <= fim)
    ELSE (mins >= ini) \/ (mins <= fim)

\* df_tmp["DataHora"].dt.hour * 60 + df_tmp["DataHora"].dt.minute
mins_abertura(row) == dt_hour(row.DataHora) * 60 + dt_minute(row.DataHora)

\* mutant: the active flag is not read
janela_aplicada_sem_flag(usar_janela, hora_inicio, hora_fim) ==
    (hora_inicio # None) /\ (hora_fim # None)

\* whether optional window 2 (or 3) is applied
janela_aplicada(usar_janela, hora_inicio, hora_fim) ==
    usar_janela /\ (hora_inicio # None) /\ (hora_fim # None)

\* mask_final for one row; j holds the nine arguments after df_in
mask_final(row, j) ==
    \/ mask_janela(mins_abertura(row), time_to_minutes(j.hora1_inicio),
                   time_to_minutes(j.hora1_fim))
    \/ /\ janela_aplicada(j.usar_janela2, j.hora2_inicio, j.hora2_fim)
       /\ mask_janela(mins_abertura(row), time_to_minutes(j.hora2_inicio),
                      time_to_minutes(j.hora2_fim))
    \/ /\ janela_aplicada(j.usar_janela3, j.hora3_inicio, j.hora3_fim)
       /\ mask_janela(mins_abertura(row), time_to_minutes(j.hora3_inicio),
                      time_to_minutes(j.hora3_fim))

\* mutant: the rows of each window are concatenated, not OR-ed
filtrar_concatenando(df_in, j) ==
    sort_values(
        SelectSeq(df_in, LAMBDA r : mask_janela(mins_abertura(r), time_to_minutes(j.hora1_inicio),
                                                time_to_minutes(j.hora1_fim)))
        \o SelectSeq(df_in, LAMBDA r :
                /\ janela_aplicada(j.usar_janela2, j.hora2_inicio, j.hora2_fim)
                /\ mask_janela(mins_abertura(r), time_to_minutes(j.hora2_inicio),
                               time_to_minutes(j.hora2_fim)))
        \o SelectSeq(df_in, LAMBDA r :
                /\ janela_aplicada(j.usar_janela3, j.hora3_inicio, j.hora3_fim)
                /\ mask_janela(mins_abertura(r), time_to_minutes(j.hora3_inicio),
                               time_to_minutes(j.hora3_fim))))

filtrar_por_tres_janelas_abertura(df_in, j) ==
    sort_values(SelectSeq(df_in, LAMBDA r : mask_final(r, j)))

---------------------------------------------------------------------------
(* Analise por Faixa Horaria: the 15-minute and 1-hour bucket tables *)

\* mutant: the bucket is taken from the minute of the hour alone
slot_15m_so_minuto(row) == dt_minute(row.DataHora) \div 15

slot_15m(row) == mins_abertura(row) \div 15

slot_1h(row) == mins_abertura(row) \div 60

\* the bucket label HH:MM-HH:MM, as its four numbers
faixa_de(ini, fim) == <<ini \div 60, ini % 60, fim \div 60, fim % 60>>

\* mutant: the loss rate counts the losing trades only
calc_expectancia_so_perdas(grupo) ==
    LET ganhos == SelectSeq(grupo, LAMBDA r : r.Liq > 0)
        perdas == SelectSeq(grupo, LAMBDA r : r.Liq < 0)
        n == Len(grupo)
    IN  IF n = 0 THEN FracInt(0)
        ELSE LET winrate == Frac(Len(ganhos), n)
                 lossrate == Frac(Len(perdas), n)
                 avg_gain == IF Len(ganhos) > 0
                             THEN Frac(SomaLiq(ganhos), Len(ganhos))
                             ELSE FracInt(0)
                 avg_loss == IF Len(perdas) > 0
                             THEN FracAbs(Frac(SomaLiq(perdas), Len(perdas)))
                             ELSE FracInt(0)
             IN  FracSub(FracMul(winrate, avg_gain), FracMul(lossrate, avg_loss))

calc_expectancia(grupo) ==
    LET ganhos == SelectSeq(grupo, LAMBDA r : r.Liq > 0)
        perdas == SelectSeq(grupo, LAMBDA r : r.Liq < 0)
        n == Len(grupo)
    IN  IF n = 0 THEN FracInt(0)
        ELSE LET winrate == Frac(Len(ganhos), n)
                 lossrate == FracSub(FracInt(1), winrate)
                 avg_gain == IF Len(ganhos) > 0
                             THEN Frac(SomaLiq(ganhos), Len(ganhos))
                             ELSE FracInt(0)
                 avg_loss == IF Len(perdas) > 0
                             THEN FracAbs(Frac(SomaLiq(perdas), Len(perdas)))
                             ELSE FracInt(0)
             IN  FracSub(FracMul(winrate, avg_gain), FracMul(lossrate, avg_loss))

\* the ascending sequence of a finite set of numbers (groupby sorts its keys)
RECURSIVE chaves_ordenadas(_)
chaves_ordenadas(S) ==
    IF S = {} THEN <<>>
    ELSE LET k == CHOOSE x \in S : \A y \in S : x <= y
         IN  <<k>> \o chaves_ordenadas(S \ {k})

\* groupby(["ordem_faixa", "Faixa Horaria"]).apply(...): one row per bucket
\* that occurs in df_tmp, sorted by ordem_faixa
agrega_15(df_tmp) ==
    LET chaves == chaves_ordenadas({slot_15m(df_tmp[i]) : i \in 1..Len(df_tmp)})
    IN  [k \in 1..Len(chaves) |->
            LET g == SelectSeq(df_tmp, LAMBDA r : slot_15m(r) = chaves[k])
            IN  [ordem_faixa |-> chaves[k],
                 Faixa       |-> faixa_de(chaves[k] * 15, chaves[k] * 15 + 14),
                 Soma        |-> SomaLiq(g),
                 Expectancia |-> calc_expectancia(g),
                 Qtd         |-> Len(g),
                 Taxa        |-> Frac(100 * Len(SelectSeq(g, LAMBDA r : r.Liq > 0)), Len(g))]]

\* groupby(["ordem_1h", "Faixa 1h"]).apply(...), sorted by ordem_1h
agrega_1h(df_tmp) ==
    LET chaves == chaves_ordenadas({slot_1h(df_tmp[i]) : i \in 1..Len(df_tmp)})
    IN  [k \in 1..Len(chaves) |->
            LET g == SelectSeq(df_tmp, LAMBDA r : slot_1h(r) = chaves[k])
            IN  [ordem_1h    |-> chaves[k],
                 Faixa       |-> faixa_de(chaves[k] * 60, chaves[k] * 60 + 59),
                 Soma        |-> SomaLiq(g),
                 Expectancia |-> calc_expectancia(g),
                 Qtd         |-> Len(g),
                 Taxa        |-> Frac(100 * Len(SelectSeq(g, LAMBDA r : r.Liq > 0)), Len(g))]]

\* df_hor_15.merge(df_hor_1h[...], on="ordem_1h", how="left"): every row of
\* the 15-minute table, with the 1-hour row of the same ordem_1h beside it.
\* A value of the right side is <<v>>, or <<>> (NaN) when no 1-hour row
\* matches.
merge_1h(t15, t1h) ==
    [k \in 1..Len(t15) |->
        LET h == t15[k].ordem_faixa \div 4
            par == SelectSeq(t1h, LAMBDA r : r.ordem_1h = h)
        IN  [ordem_faixa    |-> t15[k].ordem_faixa,
             Faixa          |-> t15[k].Faixa,
             Soma           |-> t15[k].Soma,
             Expectancia    |-> t15[k].Expectancia,
             Qtd            |-> t15[k].Qtd,
             Taxa           |-> t15[k].Taxa,
             ordem_1h       |-> h,
             Soma_1h        |-> [i \in 1..Len(par) |-> par[i].Soma],
             Expectancia_1h |-> [i \in 1..Len(par) |-> par[i].Expectancia]]]

---------------------------------------------------------------------------
(* Inputs *)

H(h, m) == [hour |-> h, minute |-> m]

\* a csv row whose "Abertura" text pd.to_datetime cannot parse
LinhaInvalida == [Data |-> 1, Abertura |-> H(24, 0), Res |-> 5]

Reverso(s) == [i \in 1..Len(s) |-> s[Len(s) + 1 - i]]

\* the csv files of exactly n rows over linhas written oldest row first
RECURSIVE Cronologicos(_, _)
Cronologicos(linhas, n) ==
    IF n = 0 THEN {<<>>}
    ELSE UNION {{Append(s, r) :
                    r \in {x \in linhas :
                              \/ s = <<>>
                              \/ to_datetime(s[Len(s)].Data, s[Len(s)].Abertura)
                                    <= to_datetime(x.Data, x.Abertura)}} :
                s \in Cronologicos(linhas, n - 1)}

\* every csv of at most MaxLen rows over the given dates, opening times and
\* gross results that is written oldest first or newest first, alone or
\* after one unparseable row
Arquivos(datas, aberturas, resultados) ==
    LET linhas == [Data : datas, Abertura : aberturas, Res : resultados]
        crono == UNION {Cronologicos(linhas, n) : n \in 0..MaxLen}
        curtos == UNION {Cronologicos(linhas, n) : n \in 0..(MaxLen - 1)}
    IN  crono \cup {Reverso(s) : s \in crono}
              \cup {<<LinhaInvalida>> \o s : s \in curtos}

Datas == 1..MaxDia

\* the widgets' initial values (thresholds in half points)
JanelasPadrao ==
    [hora1_inicio |-> H(9, 0), hora1_fim |-> H(10, 45),
     usar_janela2 |-> TRUE, hora2_inicio |-> H(13, 30), hora2_fim |-> H(15, 30),
     usar_janela3 |-> TRUE, hora3_inicio |-> H(17, 0), hora3_fim |-> H(17, 45)]

CfgPadrao ==
    [limite_perda |-> 2 * 1000, objetivo_ganho |-> 2 * 1100,
     loss_consecutivos |-> 10, j |-> JanelasPadrao]

\* the state right after the first "df = load_data()" of the process:
\* the series is held by the cache and nothing is computed yet
Carregado(csv) ==
    /\ fonte = csv
    /\ cache = <<load_data(csv)>>
    /\ reaplicado = <<>>
    /\ df = load_data(csv)
    /\ menu = "inicio"
    /\ cfg = CfgPadrao
    /\ df_real = <<>>
    /\ df_stop = <<>>
    /\ df_janela = <<>>
    /\ df_combo = <<>>
    /\ kpis = <<>>
    /\ df_hor_15 = <<>>
    /\ df_hor_1h = <<>>

---------------------------------------------------------------------------
(* The dashboard: one action per page of the menu.  A rerun of the script   *)
(* recomputes everything the page shows from df and the widget values.      *)

\* the pages read the calendar date only through the simulator, which
\* SpecStop exercises over 1..MaxDia: the dashboard's logs span two days
DatasApp == {1, 2}
AberturasApp == {H(9, 0), H(9, 20), H(10, 45)}
ResultadosApp == {1, 5, 9}
LimitesApp == {8}
ObjetivosApp == {4, 8}
LossApp == {2}
JanelasApp ==
    {[JanelasPadrao EXCEPT !.hora1_inicio = w[1], !.hora1_fim = w[2],
                           !.usar_janela2 = w[3], !.hora2_inicio = H(9, 0),
                           !.hora2_fim = H(9, 20), !.usar_janela3 = FALSE] :
        w \in {<<H(9, 20), H(10, 45), FALSE>>, <<H(9, 20), H(10, 45), TRUE>>,
               <<H(10, 45), H(9, 0), FALSE>>}}

Init == \E csv \in Arquivos(DatasApp, AberturasApp, ResultadosApp) : Carregado(csv)

\* lines 748-749 and 764-765: the running total is attached only when the
\* simulator's result does not already carry it
com_total(df_x) ==
    IF Len(df_x) > 0 /\ "Total" \notin DOMAIN df_x[1] THEN cumsum(df_x) ELSE df_x

\* menu == "Simulacao", with the widget values lp, og, lc, j
Simulacao ==
    \E lp \in LimitesApp, og \in ObjetivosApp, lc \in LossApp, j \in JanelasApp :
        /\ menu = "inicio"
        /\ menu' = "simulacao"
        /\ cfg' = [limite_perda |-> lp, objetivo_ganho |-> og,
                   loss_consecutivos |-> lc, j |-> j]
        /\ df_real' = cumsum(df)
        /\ df_stop' = com_total(simular_stop_diario(df_real', lp, og, lc))
        /\ df_janela' = cumsum(filtrar_por_tres_janelas_abertura(df_real', j))
        /\ df_combo' = com_total(simular_stop_diario(df_janela', lp, og, lc))
        /\ kpis' = <<resumo(df_real'), resumo(df_stop'), resumo(df_janela'),
                     resumo(df_combo')>>
        /\ UNCHANGED <<df, df_hor_15, df_hor_1h, fonte, cache, reaplicado>>

\* menu == "Analise por Faixa Horaria"
FaixaHoraria ==
    /\ menu = "inicio"
    /\ menu' = "faixa"
    /\ df_hor_1h' = agrega_1h(df)
    /\ df_hor_15' = merge_1h(agrega_15(df), df_hor_1h')
    /\ UNCHANGED <<df, cfg, df_real, df_stop, df_janela, df_combo, kpis, fonte, cache,
                    reaplicado>>

\* a widget changes or the page is reloaded: the script runs again from the
\* top, "df = load_data()" goes through the cache and nothing a page
\* computed survives
Rerun ==
    /\ menu # "inicio"
    /\ df' = load_data_em_cache(cache, fonte)
    /\ cache' = <<df'>>
    /\ menu' = "inicio"
    /\ cfg' = CfgPadrao
    /\ df_real' = <<>>
    /\ df_stop' = <<>>
    /\ df_janela' = <<>>
    /\ df_combo' = <<>>
    /\ kpis' = <<>>
    /\ df_hor_15' = <<>>
    /\ df_hor_1h' = <<>>
    /\ UNCHANGED <<fonte, reaplicado>>

Next == Simulacao \/ FaixaHoraria \/ Rerun

Spec == Init /\ [][Next]_vars

---------------------------------------------------------------------------
(* simular_stop_diario on its own: every call on a loaded series *)

AberturasStop == {H(9, 0), H(10, 45)}
ResultadosStop == {1, 5, 9}
LimitesStop == {0, 8, 16}
ObjetivosStop == {0, 4, 16}
LossStop == {1, 2}

InitStop == \E csv \in Arquivos(Datas, AberturasStop, ResultadosStop) : Carregado(csv)

\* df_stop = simular_stop_diario(df_real, limite_perda, objetivo_ganho, loss_consecutivos)
SoStops ==
    \E lp \in LimitesStop, og \in ObjetivosStop, lc \in LossStop :
        /\ menu = "inicio"
        /\ menu' = "stop"
        /\ cfg' = [cfg EXCEPT !.limite_perda = lp, !.objetivo_ganho = og,
                              !.loss_consecutivos = lc]
        /\ df_real' = cumsum(df)
        /\ df_stop' = com_total(simular_stop_diario(df_real', lp, og, lc))
        /\ UNCHANGED <<df, df_janela, df_combo, kpis, df_hor_15, df_hor_1h, fonte, cache,
                     reaplicado>>

SpecStop == InitStop /\ [][SoStops]_vars

---------------------------------------------------------------------------
(* simular_stop_diario called on what simular_stop_diario returned          *)

AberturasReaplica == {H(9, 0)}

InitReaplica == \E csv \in Arquivos(Datas, AberturasReaplica, ResultadosStop) : Carregado(csv)

\* simular_stop_diario(df_stop, limite_perda, objetivo_ganho, loss_consecutivos),
\* df_stop being the frame the first call built with pd.DataFrame(linhas)
Reaplica ==
    /\ menu = "stop"
    /\ menu' = "reaplicado"
    /\ reaplicado' = chamada_simular_stop_diario(colunas_de(df_stop), df_stop,
                          cfg.limite_perda, cfg.objetivo_ganho, cfg.loss_consecutivos)
    /\ UNCHANGED <<df, cfg, df_real, df_stop, df_janela, df_combo, kpis, df_hor_15,
                   df_hor_1h, fonte, cache>>

SpecReaplica == InitReaplica /\ [][SoStops \/ Reaplica]_vars

---------------------------------------------------------------------------
(* filtrar_por_tres_janelas_abertura on its own: every call, optional       *)
(* windows with and without their flag and their bounds                     *)

AberturasJanela == {H(1, 0), H(9, 0), H(10, 45), H(12, 0), H(23, 0)}
ResultadosJanela == {9}
Janela1 == {<<H(9, 0), H(10, 45)>>, <<H(22, 0), H(2, 0)>>, <<H(12, 0), H(12, 0)>>,
            <<H(23, 0), H(1, 0)>>}
Inicio2 == {None, H(22, 0)}
Fim2 == {None, H(1, 0)}
Inicio3 == {None, H(12, 0)}
Fim3 == {H(23, 0)}

InitJanela == \E csv \in Arquivos(Datas, AberturasJanela, ResultadosJanela) : Carregado(csv)

\* df_janela = filtrar_por_tres_janelas_abertura(df_real, ...)
SoJanela ==
    \E w1 \in Janela1, u2 \in BOOLEAN, i2 \in Inicio2, f2 \in Fim2,
       u3 \in BOOLEAN, i3 \in Inicio3, f3 \in Fim3 :
        LET j == [hora1_inicio |-> w1[1], hora1_fim |-> w1[2],
                  usar_janela2 |-> u2, hora2_inicio |-> i2, hora2_fim |-> f2,
                  usar_janela3 |-> u3, hora3_inicio |-> i3, hora3_fim |-> f3]
        IN  /\ menu = "inicio"
            /\ menu' = "janela"
            /\ cfg' = [cfg EXCEPT !.j = j]
            /\ df_real' = cumsum(df)
            /\ df_janela' = filtrar_por_tres_janelas_abertura(df_real', j)
            /\ UNCHANGED <<df, df_stop, df_combo, kpis, df_hor_15, df_hor_1h, fonte,
                         cache, reaplicado>>

SpecJanela == InitJanela /\ [][SoJanela]_vars

---------------------------------------------------------------------------
(* load_data behind st.cache_data, while the file at DATA_PATH is replaced  *)
(* between runs of the script                                               *)

AberturasCache == {H(9, 0)}
ResultadosCache == {1, 9}

\* the process has started and the script has not run yet: nothing is held
InitCache ==
    /\ fonte \in Arquivos({1}, AberturasCache, ResultadosCache)
    /\ cache = <<>>
    /\ df = <<>>
    /\ menu = "parado"
    /\ cfg = CfgPadrao
    /\ df_real = <<>>
    /\ df_stop = <<>>
    /\ df_janela = <<>>
    /\ df_combo = <<>>
    /\ kpis = <<>>
    /\ df_hor_15 = <<>>
    /\ df_hor_1h = <<>>
    /\ reaplicado = <<>>

\* the csv file at DATA_PATH is replaced by another one
AlteraFonte ==
    /\ \E csv \in Arquivos({1}, AberturasCache, ResultadosCache) :
          csv # fonte /\ fonte' = csv
    /\ UNCHANGED <<df, menu, cfg, df_real, df_stop, df_janela, df_combo, kpis,
                   df_hor_15, df_hor_1h, cache, reaplicado>>

\* runs of the script (the first one included) and a page, with the file
\* replaced at any time in between
SpecCache == InitCache /\ [][AlteraFonte \/ Rerun \/ FaixaHoraria]_vars

---------------------------------------------------------------------------
(* Vocabulary of the properties *)

\* a row without its running total
SemTotal(s) ==
    [i \in 1..Len(s) |-> [DataHora |-> s[i].DataHora, Res |-> s[i].Res, Liq |-> s[i].Liq]]

\* the trades of calendar day d, in the order of s
DiaDe(s, d) == SelectSeq(s, LAMBDA r : r.DataHora \div 1440 = d)

DiasDe(s) == {s[i].DataHora \div 1440 : i \in 1..Len(s)}

Ascendente(s) == \A i \in 1..(Len(s) - 1) : s[i].DataHora <= s[i + 1].DataHora

Linhas(s) == {s[i] : i \in 1..Len(s)}

\* the sum of the first k net results of s
SaldoApos(s, k) == SomaLiq(SubSeq(s, 1, k))

\* how many trades in a row, ending at the k-th of s, have a net result < 0
RECURSIVE SequenciaDePerdas(_, _)
SequenciaDePerdas(s, k) ==
    IF k = 0 \/ s[k].Liq >= 0 THEN 0 ELSE 1 + SequenciaDePerdas(s, k - 1)

\* a guard of the daily stop holds after the k-th trade of day s
GuardaApos(s, k) ==
    \/ SaldoApos(s, k) >= cfg.objetivo_ganho
    \/ SaldoApos(s, k) <= -cfg.limite_perda
    \/ SequenciaDePerdas(s, k) >= cfg.loss_consecutivos

\* the length of the prefix of day s up to the first trade after which a
\* guard holds; the whole day when there is none
PrefixoMantido(s) ==
    IF \E k \in 1..Len(s) : GuardaApos(s, k)
    THEN CHOOSE k \in 1..Len(s) : GuardaApos(s, k) /\ \A m \in 1..(k - 1) : ~GuardaApos(s, m)
    ELSE Len(s)

---------------------------------------------------------------------------
(* C1: the trades simular_stop_diario keeps for a calendar day are exactly  *)
(* the prefix of that day's trades, in ascending entry time, that ends at   *)
(* and includes the first trade after which the running daily balance is    *)
(* >= objetivo_ganho or <= -limite_perda or the run of losses is >=         *)
(* loss_consecutivos; the whole day is kept when no trade meets a guard.    *)
C1_PrefixoAtePrimeiraGuarda ==
    menu = "stop" =>
        \A d \in DiasDe(df_real) :
            LET dia == DiaDe(df_real, d)
            IN  /\ Ascendente(dia)
                /\ SemTotal(DiaDe(df_stop, d)) = SemTotal(SubSeq(dia, 1, PrefixoMantido(dia)))

\* a day of three losses under a limit of two losses in a row (and no
\* balance guard in reach) keeps exactly its first two trades
C1_Witness ==
    /\ menu = "stop"
    /\ cfg.loss_consecutivos = 2 /\ cfg.limite_perda = 16 /\ cfg.objetivo_ganho = 16
    /\ \E d \in DiasDe(df_real) :
          /\ Len(DiaDe(df_real, d)) = 3
          /\ \A i \in 1..3 : DiaDe(df_real, d)[i].Liq < 0
          /\ Len(DiaDe(df_stop, d)) = 2

---------------------------------------------------------------------------
(* C2: a trade with net result exactly 0 is not a loss.  After such a trade *)
(* is replayed perdas_consecutivas is 0; and a day that was cut short while *)
(* neither balance guard held was cut after loss_consecutivos trades in a   *)
(* row of that day, each with a net result < 0.                             *)
C2_ZeroNaoEPerda ==
    menu = "stop" =>
        \A d \in DiasDe(df_real) :
            LET dia == DiaDe(df_real, d)
                k == Len(DiaDe(df_stop, d))
            IN  /\ \A i \in 1..k : dia[i].Liq = 0 => perdas_apos(dia, i) = 0
                /\ ( /\ k < Len(dia)
                     /\ SaldoApos(dia, k) < cfg.objetivo_ganho
                     /\ SaldoApos(dia, k) > -cfg.limite_perda )
                   => /\ k >= cfg.loss_consecutivos
                      /\ \A i \in (k - cfg.loss_consecutivos + 1)..k : dia[i].Liq < 0

\* a day loss, zero, loss under a limit of two losses in a row is kept whole
C2_Witness ==
    /\ menu = "stop"
    /\ cfg.loss_consecutivos = 2 /\ cfg.limite_perda = 16 /\ cfg.objetivo_ganho = 16
    /\ \E d \in DiasDe(df_real) :
          LET dia == DiaDe(df_real, d)
          IN  /\ Len(dia) = 3
              /\ dia[1].Liq < 0 /\ dia[2].Liq = 0 /\ dia[3].Liq < 0
              /\ Len(DiaDe(df_stop, d)) = 3

---------------------------------------------------------------------------
(* C3: every calendar date is processed on its own.  The trades kept for a  *)
(* day are those the simulator keeps when it is given that day's trades     *)
(* alone (balance and streak starting at 0), so a stop, a balance or a run  *)
(* of losses of one day has no effect on another day.                       *)
C3_DiasIndependentes ==
    menu = "stop" =>
        /\ DiasDe(df_stop) \subseteq DiasDe(df_real)
        /\ \A d \in DiasDe(df_real) :
              SemTotal(DiaDe(df_stop, d))
                  = SemTotal(simular_stop_diario(DiaDe(df_real, d), cfg.limite_perda,
                                                 cfg.objetivo_ganho, cfg.loss_consecutivos))

\* day 1 ends in a kept loss, day 2 starts with a loss, and under a limit of
\* two losses in a row day 2 still keeps its second trade
C3_Witness ==
    /\ menu = "stop"
    /\ cfg.loss_consecutivos = 2 /\ cfg.limite_perda = 16 /\ cfg.objetivo_ganho = 16
    /\ \E d1, d2 \in DiasDe(df_stop) :
          LET k1 == DiaDe(df_stop, d1)
              k2 == DiaDe(df_stop, d2)
          IN  /\ d1 < d2
              /\ k1[Len(k1)].Liq < 0
              /\ k2[1].Liq < 0
              /\ Len(k2) >= 2

---------------------------------------------------------------------------
(* C10: the series simular_stop_diario returns holds the kept trades of     *)
(* every date in ascending entry-timestamp order, and the running total of  *)
(* its k-th record is the sum of the net results of its first k records,    *)
(* not the running total the record had in the input.                       *)
RECURSIVE MantidosNosDias(_, _)
MantidosNosDias(s, dias) ==
    IF dias = {} THEN 0
    ELSE LET d == CHOOSE x \in dias : TRUE
         IN  PrefixoMantido(DiaDe(s, d)) + MantidosNosDias(s, dias \ {d})

C10_OrdemETotalRecalculado ==
    menu = "stop" =>
        /\ Ascendente(df_stop)
        /\ Len(df_stop) = MantidosNosDias(df_real, DiasDe(df_real))
        /\ Linhas(SemTotal(df_stop)) \subseteq Linhas(SemTotal(df_real))
        /\ \A k \in 1..Len(df_stop) : df_stop[k].Total = SaldoApos(df_stop, k)

\* a record kept after a dropped one: its running total is no longer the
\* one it had in the input
C10_Witness ==
    /\ menu = "stop"
    /\ Len(df_stop) < Len(df_real)
    /\ \E k \in 1..Len(df_stop) :
          /\ df_stop[k].Total = SaldoApos(df_stop, k)
          /\ df_stop[k] \notin Linhas(df_real)

---------------------------------------------------------------------------
(* Vocabulary of the window properties *)

\* entry minute of day of a row, 0..1439
MinutoDoDia(row) == row.DataHora % 1440

\* a bound as minutes of day
Minutos(t) == 60 * t.hour + t.minute

\* membership of minute t in the window (a, b): closed, wrapping midnight
\* when b < a
NaJanela(t, a, b) ==
    IF b >= a THEN a <= t /\ t <= b ELSE t >= a \/ t <= b

Aplicada2 == cfg.j.usar_janela2 /\ cfg.j.hora2_inicio # None /\ cfg.j.hora2_fim # None

Aplicada3 == cfg.j.usar_janela3 /\ cfg.j.hora3_inicio # None /\ cfg.j.hora3_fim # None

---------------------------------------------------------------------------
(* C4: with a single window (start, end), a trade is kept iff its entry     *)
(* minute of day t satisfies start <= t <= end when end >= start, and       *)
(* t >= start or t <= end when end < start (the window wraps midnight).     *)
C4_JanelaUnica ==
    (menu = "janela" /\ ~Aplicada2 /\ ~Aplicada3) =>
        \A i \in 1..Len(df_real) :
            LET t == MinutoDoDia(df_real[i])
            IN  /\ t \in 0..1439
                /\ df_real[i] \in Linhas(df_janela)
                      <=> NaJanela(t, Minutos(cfg.j.hora1_inicio), Minutos(cfg.j.hora1_fim))

\* the window 22:00-02:00 alone keeps the trades of 23:00 and 01:00 and
\* leaves out the trade of 12:00
C4_Witness ==
    /\ menu = "janela" /\ ~Aplicada2 /\ ~Aplicada3
    /\ cfg.j.hora1_inicio = H(22, 0) /\ cfg.j.hora1_fim = H(2, 0)
    /\ {MinutoDoDia(df_real[i]) : i \in 1..Len(df_real)} = {60, 720, 1380}
    /\ {MinutoDoDia(df_janela[i]) : i \in 1..Len(df_janela)} = {60, 1380}

---------------------------------------------------------------------------
(* C5: a trade is kept iff its entry minute of day is in window 1 or in an  *)
(* applied optional window; window 2 (3) is applied iff its flag is set and *)
(* both its bounds are given, so an inactive window or one with a missing   *)
(* bound adds no trade; the result is in ascending entry-time order.        *)
C5_TresJanelas ==
    menu = "janela" =>
        /\ Ascendente(df_janela)
        /\ Linhas(df_janela) \subseteq Linhas(df_real)
        /\ \A i \in 1..Len(df_real) :
              LET t == MinutoDoDia(df_real[i])
              IN  df_real[i] \in Linhas(df_janela)
                    <=> \/ NaJanela(t, Minutos(cfg.j.hora1_inicio), Minutos(cfg.j.hora1_fim))
                        \/ Aplicada2 /\ NaJanela(t, Minutos(cfg.j.hora2_inicio), Minutos(cfg.j.hora2_fim))
                        \/ Aplicada3 /\ NaJanela(t, Minutos(cfg.j.hora3_inicio), Minutos(cfg.j.hora3_fim))

\* window 2 has both bounds but its flag is off: a trade inside it and
\* outside window 1 is dropped, while window 3, applied, adds a trade
C5_Witness ==
    /\ menu = "janela"
    /\ ~cfg.j.usar_janela2 /\ cfg.j.hora2_inicio # None /\ cfg.j.hora2_fim # None
    /\ Aplicada3
    /\ \E i, k \in 1..Len(df_real) :
          /\ NaJanela(MinutoDoDia(df_real[i]), Minutos(cfg.j.hora2_inicio), Minutos(cfg.j.hora2_fim))
          /\ df_real[i] \notin Linhas(df_janela)
          /\ ~NaJanela(MinutoDoDia(df_real[k]), Minutos(cfg.j.hora1_inicio), Minutos(cfg.j.hora1_fim))
          /\ df_real[k] \in Linhas(df_janela)

---------------------------------------------------------------------------
(* Vocabulary of the summary and bucket properties *)

RECURSIVE SomaDosNegativos(_)
SomaDosNegativos(s) ==
    IF s = <<>> THEN 0
    ELSE (IF Head(s).Liq < 0 THEN Head(s).Liq ELSE 0) + SomaDosNegativos(Tail(s))

RECURSIVE SomaDosPositivos(_)
SomaDosPositivos(s) ==
    IF s = <<>> THEN 0
    ELSE (IF Head(s).Liq > 0 THEN Head(s).Liq ELSE 0) + SomaDosPositivos(Tail(s))

\* the four series of the Simulacao page, in the order of kpis
SeriesDaSimulacao == <<df_real, df_stop, df_janela, df_combo>>

\* the value a fraction [num, den] stands for times den, to compare
\* fractions without reducing them
MesmoValor(f, n, d) == f.num * d = n * f.den

---------------------------------------------------------------------------
(* C6: the profit factor resumo returns is +infinity iff the sum of the     *)
(* negative net results of the series is exactly 0 (the empty series and a  *)
(* series with no losing trade included); otherwise it is                   *)
(* |sum of positive| / |sum of negative|, which is 0 when the series has    *)
(* losses and no gains.                                                     *)
C6_FatorDeLucro ==
    menu = "simulacao" =>
        \A i \in 1..4 :
            LET S == SeriesDaSimulacao[i]
                f == kpis[i].fator
            IN  /\ f.inf <=> SomaDosNegativos(S) = 0
                /\ ~f.inf =>
                      /\ f.den > 0 /\ f.num >= 0
                      /\ MesmoValor(f, Abs(SomaDosPositivos(S)), Abs(SomaDosNegativos(S)))
                      /\ SomaDosPositivos(S) = 0 => f.num = 0

\* one page shows a factor of +infinity for a series that is not empty, a
\* factor of 0 for a series with losses only and a factor in between
C6_Witness ==
    /\ menu = "simulacao"
    /\ \E i \in 1..4 : kpis[i].fator.inf /\ Len(SeriesDaSimulacao[i]) > 0
    /\ \E i \in 1..4 : ~kpis[i].fator.inf /\ kpis[i].fator.num = 0
    /\ \E i \in 1..4 : ~kpis[i].fator.inf /\ kpis[i].fator.num > 0

---------------------------------------------------------------------------
(* C7: the 15-minute buckets partition the trades.  Every trade falls in    *)
(* exactly one row of the table, the row whose index is                     *)
(* minute_of_day // 15, an index in 0..95; the rows' sums of net results    *)
(* add up to the sum over the whole series and their trade counts to its    *)
(* length.                                                                  *)
C7_ParticaoEmFaixas ==
    menu = "faixa" =>
        /\ \A i \in 1..Len(df) :
              /\ MinutoDoDia(df[i]) \div 15 \in 0..95
              /\ Cardinality({k \in 1..Len(df_hor_15) :
                     df_hor_15[k].ordem_faixa = MinutoDoDia(df[i]) \div 15}) = 1
        /\ SumSeq([k \in 1..Len(df_hor_15) |-> df_hor_15[k].Soma]) = SomaLiq(df)
        /\ SumSeq([k \in 1..Len(df_hor_15) |-> df_hor_15[k].Qtd]) = Len(df)

\* a table of several buckets, one of them holding more than one trade
C7_Witness ==
    /\ menu = "faixa"
    /\ Len(df_hor_15) >= 2
    /\ \E k \in 1..Len(df_hor_15) : df_hor_15[k].Qtd >= 2
    /\ SumSeq([k \in 1..Len(df_hor_15) |-> df_hor_15[k].Soma]) # 0

---------------------------------------------------------------------------
(* C9: for any windows and thresholds, the combined series (window filter,  *)
(* then stop simulator) has at most as many trades as the window-filtered   *)
(* series, which has at most as many as the unfiltered series.              *)
C9_ContagensDecrescem ==
    menu = "simulacao" =>
        /\ Len(df_combo) <= Len(df_janela)
        /\ Len(df_janela) <= Len(df_real)
        /\ Len(df_real) = Len(df)
        /\ kpis[4].ops <= kpis[3].ops /\ kpis[3].ops <= kpis[1].ops

\* the filter drops a trade and the stop drops another
C9_Witness ==
    /\ menu = "simulacao"
    /\ 0 < Len(df_combo)
    /\ Len(df_combo) < Len(df_janela)
    /\ Len(df_janela) < Len(df_real)

---------------------------------------------------------------------------
(* C8: in the 15-minute table computed from a log that holds trades, a      *)
(* 15-minute bucket with no trades still has a row, which carries its       *)
(* parent 1-hour bucket's sum and expectancy (bucket index // 4); both are  *)
(* 0 when the parent bucket has no trades either.                           *)
C8_FaixaVaziaRecebeHora ==
    (menu = "faixa" /\ Len(df) > 0) =>
        \A b \in 0..95 :
            (\A i \in 1..Len(df) : MinutoDoDia(df[i]) \div 15 # b) =>
                LET hora == SelectSeq(df, LAMBDA r : MinutoDoDia(r) \div 60 = b \div 4)
                IN  \E k \in 1..Len(df_hor_15) :
                        /\ df_hor_15[k].ordem_faixa = b
                        /\ df_hor_15[k].Qtd = 0
                        /\ df_hor_15[k].Soma_1h = <<SomaLiq(hora)>>
                        /\ df_hor_15[k].Expectancia_1h = <<calc_expectancia(hora)>>

---------------------------------------------------------------------------
(* C11: an empty series is handled by every component.  resumo of an empty  *)
(* series is (0, 0.0, +inf); simular_stop_diario of an empty series is an   *)
(* empty series; filtrar_por_tres_janelas_abertura of an empty series, or   *)
(* with windows that hold no trade's entry time, is an empty series; and    *)
(* resumo of each of those empty results is (0, 0.0, +inf) again.           *)
ResumoVazio == [ops |-> 0, saldo |-> 0, fator |-> Infinito]

\* no trade of s opens inside window 1 or an applied optional window
NenhumaNaJanela(s) ==
    \A i \in 1..Len(s) :
        LET t == MinutoDoDia(s[i])
        IN  /\ ~NaJanela(t, Minutos(cfg.j.hora1_inicio), Minutos(cfg.j.hora1_fim))
            /\ ~(Aplicada2 /\ NaJanela(t, Minutos(cfg.j.hora2_inicio), Minutos(cfg.j.hora2_fim)))
            /\ ~(Aplicada3 /\ NaJanela(t, Minutos(cfg.j.hora3_inicio), Minutos(cfg.j.hora3_fim)))

C11_VazioTratado ==
    menu = "simulacao" =>
        /\ Len(df_real) = 0 => (df_stop = <<>> /\ df_janela = <<>>)
        /\ NenhumaNaJanela(df_real) => df_janela = <<>>
        /\ Len(df_janela) = 0 => df_combo = <<>>
        /\ \A i \in 1..4 : Len(SeriesDaSimulacao[i]) = 0 => kpis[i] = ResumoVazio

\* the log holds trades and none of them opens inside the windows: the
\* filtered series, the simulator's result on it and their summaries are
\* the empty ones
C11_Witness ==
    /\ menu = "simulacao"
    /\ Len(df_real) > 0 /\ NenhumaNaJanela(df_real)
    /\ df_janela = <<>> /\ df_combo = <<>>
    /\ kpis[3] = ResumoVazio /\ kpis[4] = ResumoVazio
    /\ kpis[1] # ResumoVazio

---------------------------------------------------------------------------
(* C12: the cache of the loaded log is invalidated by a change of the       *)
(* source: every load returns the series normalized from the csv file as it *)
(* is at the time of the load, so a load that follows a change of the file  *)
(* never returns the series cached before the change.                       *)
C12_RecargaAposMudanca ==
    [][Rerun => df' = load_data(fonte)]_vars

---------------------------------------------------------------------------
(* C14: for a bucket of n > 0 trades, w of them with a net result > 0 and l *)
(* with a net result < 0, the expectancy is                                 *)
(* (w/n) * avg_gain - (1 - w/n) * avg_loss, avg_gain the mean of the        *)
(* positive net results (0 if w = 0) and avg_loss the mean absolute value   *)
(* of the negative ones (0 if l = 0): a trade with a net result of 0 adds   *)
(* to the loss rate 1 - w/n.  The expectancy of an empty bucket is 0.       *)

\* the claimed expectancy of the trades g of a bucket that is not empty, as
\* <<numerator, denominator>>: with P the sum of the gains and N the sum of
\* the losses' absolute values, (w/n)(P/w) - ((n-w)/n)(N/l)
ExpectanciaDe(g) ==
    LET n == Len(g)
        w == Cardinality({i \in 1..n : g[i].Liq > 0})
        l == Cardinality({i \in 1..n : g[i].Liq < 0})
        P == SomaDosPositivos(g)
        N == -SomaDosNegativos(g)
    IN  IF l = 0 THEN <<P, n>> ELSE <<P * l - (n - w) * N, n * l>>

C14_Expectancia ==
    menu = "faixa" =>
        /\ \A k \in 1..Len(df_hor_15) :
              LET g == SelectSeq(df, LAMBDA r : MinutoDoDia(r) \div 15 = df_hor_15[k].ordem_faixa)
                  e == ExpectanciaDe(g)
              IN  Len(g) > 0 /\ MesmoValor(df_hor_15[k].Expectancia, e[1], e[2])
        /\ \A k \in 1..Len(df_hor_1h) :
              LET g == SelectSeq(df, LAMBDA r : MinutoDoDia(r) \div 60 = df_hor_1h[k].ordem_1h)
                  e == ExpectanciaDe(g)
              IN  Len(g) > 0 /\ MesmoValor(df_hor_1h[k].Expectancia, e[1], e[2])
        /\ calc_expectancia(<<>>) = FracInt(0)

\* a 15-minute bucket of a loss of 2 points and a trade with a net result
\* of 0 has the expectancy -2 points (-4 half points): both trades count in
\* the loss rate; the 1-hour bucket around it also holds a gain
C14_Witness ==
    /\ menu = "faixa"
    /\ \E k \in 1..Len(df_hor_15) :
          /\ df_hor_15[k].Qtd = 2 /\ df_hor_15[k].Soma = -4
          /\ df_hor_15[k].Expectancia = FracInt(-4)
    /\ \E k \in 1..Len(df_hor_1h) :
          /\ df_hor_1h[k].Qtd = 3 /\ df_hor_1h[k].Soma = 0
          /\ df_hor_1h[k].Expectancia = Frac(-4, 3)

---------------------------------------------------------------------------
(* C15: a threshold of 0 is used as it is.  With objetivo_ganho = 0 and any *)
(* limite_perda and loss_consecutivos, each day stops right after its first *)
(* trade at which the running daily balance is >= 0: what is kept of a day  *)
(* is a prefix of the day, and no trade of the day is kept after a trade    *)
(* whose balance after the trade is >= 0.                                   *)
C15_ObjetivoZero ==
    (menu = "stop" /\ cfg.objetivo_ganho = 0) =>
        \A d \in DiasDe(df_real) :
            LET dia == SemTotal(DiaDe(df_real, d))
                mantido == SemTotal(DiaDe(df_stop, d))
            IN  /\ Len(mantido) <= Len(dia)
                /\ mantido = SubSeq(dia, 1, Len(mantido))
                /\ \A k \in 1..Len(dia) : SaldoApos(dia, k) >= 0 => Len(mantido) <= k

\* target 0, loss limit 8 points, 2 losses in a row: a day of three trades
\* that opens with a loss of 2 points and is back at a balance of exactly 0
\* after its second trade keeps those two trades and drops the third
C15_Witness ==
    /\ menu = "stop" /\ cfg.objetivo_ganho = 0
    /\ cfg.limite_perda = 16 /\ cfg.loss_consecutivos = 2
    /\ \E d \in DiasDe(df_real) :
          LET dia == DiaDe(df_real, d)
          IN  /\ Len(dia) = 3
              /\ SaldoApos(dia, 1) = -4 /\ SaldoApos(dia, 2) = 0
              /\ Len(DiaDe(df_stop, d)) = 2

---------------------------------------------------------------------------
(* C16: for any thresholds, 0 included, simular_stop_diario keeps the       *)
(* earliest trade of every calendar date of its input: the dates of the     *)
(* output are the dates of the input, the output is empty only if the input *)
(* is, and the output is a sub-sequence of the input (no trade duplicated   *)
(* or invented).                                                            *)

\* a is b with some of its elements left out
RECURSIVE Subsequencia(_, _)
Subsequencia(a, b) ==
    IF a = <<>> THEN TRUE
    ELSE IF b = <<>> THEN FALSE
    ELSE IF Head(a) = Head(b) THEN Subsequencia(Tail(a), Tail(b))
    ELSE Subsequencia(a, Tail(b))

C16_PrimeiraDeCadaDia ==
    menu = "stop" =>
        /\ DiasDe(df_stop) = DiasDe(df_real)
        /\ \A d \in DiasDe(df_real) :
              LET dia == SemTotal(DiaDe(df_real, d))
                  mantido == SemTotal(DiaDe(df_stop, d))
              IN  /\ Len(mantido) >= 1
                  /\ mantido[1] = dia[1]
                  /\ \A k \in 1..Len(dia) : mantido[1].DataHora <= dia[k].DataHora
        /\ Len(df_stop) = 0 => Len(df_real) = 0
        /\ Subsequencia(SemTotal(df_stop), SemTotal(df_real))

\* both thresholds are 0: of three trades over two dates, the later trade
\* of the date that has two is dropped and each date keeps its first
C16_Witness ==
    /\ menu = "stop"
    /\ cfg.limite_perda = 0 /\ cfg.objetivo_ganho = 0
    /\ Cardinality(DiasDe(df_real)) = 2
    /\ Len(df_real) = 3 /\ Len(df_stop) = 2
    /\ \E i \in 1..3 : df_real[i].DataHora # df_real[1].DataHora
                         /\ SemTotal(df_real)[i] \notin Linhas(SemTotal(df_stop))

---------------------------------------------------------------------------
(* C17: simular_stop_diario is idempotent for fixed thresholds.  Called on  *)
(* its own result with the same limite_perda, objetivo_ganho and            *)
(* loss_consecutivos it returns the same trades in the same order with the  *)
(* same running totals, for every input series.                             *)
C17_Idempotente ==
    menu = "reaplicado" => reaplicado = [erro |-> "", df_sim |-> df_stop]

====
